---------------------------- MODULE Spec2Model ----------------------------
(***************************************************************************)
(* Model of svg2dxf.py: the batch conversion of the drawings of ./svgs     *)
(* into polyline documents in ./dxfs.                                      *)
(*                                                                         *)
(* Numbers.  The script computes in floating point.  Here a decimal        *)
(* literal is held in thousandths (21.6 is 21600), a quotient is an exact  *)
(* fraction <<n, d>> in lowest terms with d > 0, and a sampled coordinate  *)
(* is held in thousandths of a millimetre, so the tolerance 0.01 is 10.    *)
(* Strings are sequences of one-character strings.                         *)
(***************************************************************************)
EXTENDS Integers, Sequences, FiniteSets, TLC

VARIABLES
    listing,          \* os.listdir(input_folder): the names, in the order returned
    fidx,             \* position of the file loop in listing (1-based)
    pc,               \* "loop", "paths", "done" or "crashed"
    width,            \* svg_attributes.get("width", ...)
    height,           \* svg_attributes.get("height", ...)
    viewbox,          \* svg_attributes.get("viewBox", ...).split()
    svg_width_mm,     \* thousandths
    svg_height_mm,    \* thousandths
    msp,              \* the polylines of the document being built
    path_idx,         \* number of paths of the current file already processed
    scale_factor,     \* of the last path processed, <<n, d>>
    path_length_mm,   \* of the last path processed, <<n, d>>
    num_samples,      \* of the last path processed
    ts,               \* the parameters t = <<i, num_samples>> passed to path.point
    polyline_points,  \* of the last path processed
    unique_points,    \* of the last path processed
    dxfs,             \* output folder: file name -> document written
    saved,            \* history of doc.saveas calls
    error,            \* "none" or the exception that ended the run
    errat,            \* the statement that raised it
    dd_points,        \* deduplicator alone: the input chain
    dd_i,             \* deduplicator alone: number of points consumed
    dd_before,        \* deduplicator alone: unique_points before the last step
    dd_unique,        \* deduplicator alone: unique_points
    dd_again,         \* deduplicator alone: the deduplicator applied to dd_unique
    dd_pc             \* deduplicator alone: "idle", "run", "once" or "twice"

pvars == <<listing, fidx, pc, width, height, viewbox, svg_width_mm, svg_height_mm,
           msp, path_idx, scale_factor, path_length_mm, num_samples, ts,
           polyline_points, unique_points, dxfs, saved, error, errat>>
dvars == <<dd_points, dd_i, dd_before, dd_unique, dd_again, dd_pc>>
vars == <<pvars, dvars>>

---------------------------------------------------------------------------
(* Bounds of the model *)

\* number of directory entries of a run
MaxFiles == 3
\* length of a chain given to the deduplicator alone
MaxPoints == 3

---------------------------------------------------------------------------
(* Arithmetic *)

Abs(a) == IF a < 0 THEN -a ELSE a

Max(a, b) == IF a >= b THEN a ELSE b

RECURSIVE Gcd(_, _)
Gcd(a, b) == IF b = 0 THEN a ELSE Gcd(b, a % b)

\* the fraction n/d (d # 0) in lowest terms with a positive denominator
Frac(n, d) ==
    LET g == Gcd(Abs(n), Abs(d))
        s == IF d < 0 THEN -1 ELSE 1
    IN  <<s * (n \div g), s * (d \div g)>>

\* int(n/d) of Python for d > 0: truncation toward zero
Trunc(n, d) == IF n >= 0 THEN n \div d ELSE -((-n) \div d)

\* n/d (d > 0) rounded to the nearest integer
Round(n, d) == IF n >= 0 THEN (2 * n + d) \div (2 * d) ELSE -((2 * (-n) + d) \div (2 * d))

---------------------------------------------------------------------------
(* Point deduplicator, lines 66-74 *)

\* the tolerance 0.01, in thousandths
TOLERANCE == 10

KeepPointInclusive(unique, p) ==
    \/ unique = <<>>
    \/ Abs(p[1] - unique[Len(unique)][1]) >= TOLERANCE
    \/ Abs(p[2] - unique[Len(unique)][2]) >= TOLERANCE

\* the condition of lines 69-73
KeepPoint(unique, p) ==
    \/ unique = <<>>
    \/ Abs(p[1] - unique[Len(unique)][1]) > TOLERANCE
    \/ Abs(p[2] - unique[Len(unique)][2]) > TOLERANCE

DedupAppendKeepLatest(unique, p) ==
    IF KeepPoint(unique, p) THEN Append(unique, p)
    ELSE [unique EXCEPT ![Len(unique)] = p]

\* one iteration of the loop of lines 68-74
DedupAppend(unique, p) ==
    IF KeepPoint(unique, p) THEN Append(unique, p) ELSE unique

\* the loop of lines 68-74 over points[lo..hi], starting from the chain unique.
\* The range is halved, and the chain of the first half is evaluated (its
\* length is taken) before the second half starts, so that a chain of several
\* hundred points needs no deep recursion.
RECURSIVE DedupRange(_, _, _, _)
DedupRange(unique, points, lo, hi) ==
    IF lo > hi THEN unique
    ELSE IF lo = hi THEN DedupAppend(unique, points[lo])
    ELSE LET mid == (lo + hi) \div 2
             first == DedupRange(unique, points, lo, mid)
         IN  IF Len(first) >= 0 THEN DedupRange(first, points, mid + 1, hi) ELSE first

\* lines 67-74: unique_points of polyline_points
UniquePoints(points) == DedupRange(<<>>, points, 1, Len(points))

---------------------------------------------------------------------------
(* Strings *)

Uppers == <<"A", "B", "C", "D", "E", "F", "G", "H", "I", "J", "K", "L", "M",
            "N", "O", "P", "Q", "R", "S", "T", "U", "V", "W", "X", "Y", "Z">>
Lowers == <<"a", "b", "c", "d", "e", "f", "g", "h", "i", "j", "k", "l", "m",
            "n", "o", "p", "q", "r", "s", "t", "u", "v", "w", "x", "y", "z">>

LowerChar(c) ==
    IF \E i \in 1..Len(Uppers) : Uppers[i] = c
    THEN Lowers[CHOOSE i \in 1..Len(Uppers) : Uppers[i] = c]
    ELSE c

\* str.lower
Lower(s) == [i \in 1..Len(s) |-> LowerChar(s[i])]

\* str.endswith
EndsWith(s, suffix) ==
    /\ Len(s) >= Len(suffix)
    /\ SubSeq(s, Len(s) - Len(suffix) + 1, Len(s)) = suffix

IsSpace(c) == c = " "

RECURSIVE LStrip(_)
LStrip(s) == IF s # <<>> /\ IsSpace(Head(s)) THEN LStrip(Tail(s)) ELSE s

RECURSIVE RStrip(_)
RStrip(s) ==
    IF s # <<>> /\ IsSpace(s[Len(s)]) THEN RStrip(SubSeq(s, 1, Len(s) - 1)) ELSE s

\* str.strip
Strip(s) == RStrip(LStrip(s))

\* the first token of a string that does not start with a space
RECURSIVE FirstToken(_)
FirstToken(s) ==
    IF s = <<>> \/ IsSpace(Head(s)) THEN <<>>
    ELSE <<Head(s)>> \o FirstToken(Tail(s))

\* str.split(): the maximal runs of non-space characters
RECURSIVE Split(_)
Split(s) ==
    LET t == LStrip(s)
    IN  IF t = <<>> THEN <<>>
        ELSE LET tok == FirstToken(t)
             IN  <<tok>> \o Split(SubSeq(t, Len(tok) + 1, Len(t)))

Digits == <<"0", "1", "2", "3", "4", "5", "6", "7", "8", "9">>

IsDigit(c) == \E i \in 1..Len(Digits) : Digits[i] = c

DigitVal(c) == (CHOOSE i \in 1..Len(Digits) : Digits[i] = c) - 1

AllDigits(s) == \A i \in 1..Len(s) : IsDigit(s[i])

RECURSIVE NatOf(_)
NatOf(s) ==
    IF s = <<>> THEN 0
    ELSE 10 * NatOf(SubSeq(s, 1, Len(s) - 1)) + DigitVal(s[Len(s)])

\* float(s) of a decimal literal, in thousandths: surrounding blanks are
\* stripped, a sign is allowed, and there must be a digit before or after the
\* point.  ok = FALSE is ValueError.  Exponents, "inf", "nan" and "_" are not
\* modelled: no string of the model holds the letters they need.
ParseFloat(s) ==
    LET t == Strip(s)
        signed == t # <<>> /\ Head(t) \in {"+", "-"}
        b == IF signed THEN Tail(t) ELSE t
        dot == IF \E i \in 1..Len(b) : b[i] = "."
               THEN CHOOSE i \in 1..Len(b) : b[i] = "." /\ \A j \in 1..(i - 1) : b[j] # "."
               ELSE Len(b) + 1
        ip == SubSeq(b, 1, dot - 1)
        fp == SubSeq(b, dot + 1, Len(b))
        fp3 == SubSeq(fp \o <<"0", "0", "0">>, 1, 3)
        good == AllDigits(ip) /\ AllDigits(fp) /\ Len(ip) + Len(fp) >= 1
        mag == IF good THEN 1000 * NatOf(ip) + NatOf(fp3) ELSE 0
    IN  [ok |-> good, val |-> IF signed /\ Head(t) = "-" THEN -mag ELSE mag]

\* lines 27-30 and 32-35: a trailing "mm" is cut off before float()
MmFloat(s) ==
    IF EndsWith(s, <<"m", "m">>) THEN ParseFloat(SubSeq(s, 1, Len(s) - 2))
    ELSE ParseFloat(s)

\* os.path.splitext(name)[0] of a name without a directory: the name up to
\* its last dot, unless only dots come before that dot
SplitExtRoot(name) ==
    LET dots == {i \in 1..Len(name) : name[i] = "."}
        dot == IF dots = {} THEN 0 ELSE CHOOSE i \in dots : \A j \in dots : j <= i
    IN  IF dot > 0 /\ \E k \in 1..(dot - 1) : name[k] # "."
        THEN SubSeq(name, 1, dot - 1)
        ELSE name

\* line 16: the name of the output file in output_folder
DxfPath(filename) == SplitExtRoot(filename) \o <<".", "d", "x", "f">>

\* line 14
IsSvg(filename) == EndsWith(Lower(filename), <<".", "s", "v", "g">>)

---------------------------------------------------------------------------
(* Metadata resolver, lines 21-35 and 51 *)

\* line 22
DefaultWidth == <<"2", "1", ".", "6", "m", "m">>
\* line 23
DefaultHeight == <<"3", "7", ".", "8", "m", "m">>
\* line 24
DefaultViewBox == <<"-", "4", "0", " ", "-", "3", "0", " ", "1", "2", " ", "2", "1">>

DictGetNoDefault(attrs, key, default) == IF key \in DOMAIN attrs THEN attrs[key] ELSE <<>>

\* dict.get(key, default)
DictGet(attrs, key, default) == IF key \in DOMAIN attrs THEN attrs[key] ELSE default

ScaleFactorInverted(w, v) == Frac(v, w)

\* line 51: svg_width_mm / float(viewbox[2]), both in thousandths, v # 0
ScaleFactor(w, v) == Frac(w, v)

---------------------------------------------------------------------------
(* Curve discretizer, lines 47-64 *)

\* line 7
POINTS_PER_MM == 10

RECURSIVE ISqrtIn(_, _, _)
ISqrtIn(n, lo, hi) ==
    IF lo >= hi THEN lo
    ELSE LET mid == (lo + hi + 1) \div 2
         IN  IF mid * mid <= n THEN ISqrtIn(n, mid, hi) ELSE ISqrtIn(n, lo, mid - 1)

\* a path is one straight segment [start, end], coordinates in thousandths of
\* a viewbox unit; line 48: path.length() of svgpathtools is |end - start|
PathLength(path) ==
    LET dx == path.end[1] - path.start[1]
        dy == path.end[2] - path.start[2]
    IN  ISqrtIn(dx * dx + dy * dy, 0, 40000)

\* line 52: path_length * scale_factor, in millimetres
PathLengthMm(len, sf) == Frac(len * sf[1], 1000 * sf[2])

NumSamplesMinOne(lmm) == Max(1, Trunc(lmm[1] * POINTS_PER_MM, lmm[2]))

\* line 55
NumSamples(lmm) == Max(2, Trunc(lmm[1] * POINTS_PER_MM, lmm[2]))

\* lines 59-64 for t = i/n: path.point(t) of svgpathtools is
\* start + t * (end - start); both axes are multiplied by scale_factor
SamplePoint(path, i, n, sf) ==
    LET dx == path.end[1] - path.start[1]
        dy == path.end[2] - path.start[2]
    IN  << Round((path.start[1] * n + i * dx) * sf[1], n * sf[2]),
           Round((path.start[2] * n + i * dy) * sf[1], n * sf[2]) >>

\* line 58: len(range(num_samples + 1))
SampleCount(n) == n + 1

\* lines 57-64
PolylinePoints(path, n, sf) == [k \in 1..SampleCount(n) |-> SamplePoint(path, k - 1, n, sf)]

\* line 59: the parameters of the loop of line 58, t = i / num_samples
Parameters(n) == [k \in 1..SampleCount(n) |-> <<k - 1, n>>]

---------------------------------------------------------------------------
(* Document emitter, lines 40-44 and 76-82 *)

NewDocReused(old) == old

\* lines 40-44: a new document has an empty modelspace
NewDoc(old) == <<>>

AddIfSurvivesAlways(space, chain) == Append(space, chain)

\* lines 76-77
AddIfSurvives(space, chain) == IF Len(chain) > 1 THEN Append(space, chain) ELSE space

---------------------------------------------------------------------------
(* The input folder *)

Line(x1, y1, x2, y2) == [start |-> <<x1, y1>>, end |-> <<x2, y2>>, raises |-> FALSE]

\* a curve whose length() raises inside svgpathtools (line 48)
Broken == [start |-> <<0, 0>>, end |-> <<0, 0>>, raises |-> TRUE]

\* the files a run may find in input_folder, with what svg2paths2 returns for each
Catalogue == <<
    \* the declared metadata equal the defaults; one curve of length 24
    [name |-> <<"a", ".", "s", "v", "g">>,
     attrs |-> ("width" :> <<"2", "1", ".", "6", "m", "m">>) @@ ("height" :> <<"3", "7", ".", "8", "m", "m">>) @@ ("viewBox" :> <<"-", "4", "0", " ", "-", "3", "0", " ", "1", "2", " ", "2", "1">>),
     paths |-> <<Line(-40000, -30000, -16000, -30000)>>],
    \* no metadata; a curve of 0.018 mm, a curve of length 0, a curve of 0.9 mm
    [name |-> <<"B", ".", "S", "V", "G">>,
     attrs |-> <<>>,
     paths |-> <<Line(0, 0, 10, 0), Line(1000, 1000, 1000, 1000), Line(0, 0, 0, 500)>>],
    \* not a drawing
    [name |-> <<"c", ".", "t", "x", "t">>,
     attrs |-> ("width" :> <<"b", "a", "d">>),
     paths |-> <<Line(0, 0, 1000, 0)>>],
    \* a unit other than mm
    [name |-> <<"d", ".", "s", "v", "g">>,
     attrs |-> ("width" :> <<"2", "1", ".", "6", "p", "x">>),
     paths |-> <<Line(0, 0, 1000, 0)>>],
    \* a unit other than mm
    [name |-> <<"e", ".", "s", "v", "g">>,
     attrs |-> ("height" :> <<"3", "7", ".", "8", "c", "m">>),
     paths |-> <<Line(0, 0, 1000, 0)>>],
    \* a viewBox whose width is no number, and no curve
    [name |-> <<"f", ".", "s", "v", "g">>,
     attrs |-> ("width" :> <<"2", "1", ".", "6", "m", "m">>) @@ ("viewBox" :> <<"0", " ", "0", " ", "x", " ", "1", "0">>),
     paths |-> <<>>],
    \* a viewBox whose width is no number
    [name |-> <<"g", ".", "s", "v", "g">>,
     attrs |-> ("viewBox" :> <<"0", " ", "0", " ", "x", " ", "1", "0">>),
     paths |-> <<Line(0, 0, 1000, 0)>>],
    \* a viewBox whose height is no number; two dots in the name
    [name |-> <<"h", ".", "v", ".", "s", "v", "g">>,
     attrs |-> ("width" :> <<"1", "2">>) @@ ("viewBox" :> <<"0", " ", "0", " ", "1", "2", " ", "z", "z">>),
     paths |-> <<Line(0, 0, 300, 0), Line(0, 0, 0, 16)>>],
    \* a viewBox of one field
    [name |-> <<"i", ".", "s", "v", "g">>,
     attrs |-> ("viewBox" :> <<"1", "2">>),
     paths |-> <<Line(0, 0, 1000, 0)>>],
    \* a viewBox of width 0
    [name |-> <<"j", ".", "s", "v", "g">>,
     attrs |-> ("viewBox" :> <<"0", " ", "0", " ", "0", " ", "0">>),
     paths |-> <<Line(0, 0, 1000, 0)>>],
    \* a negative width; the same output name as a.svg
    [name |-> <<"a", ".", "S", "V", "G">>,
     attrs |-> ("width" :> <<"-", "2", "1", ".", "6", "m", "m">>),
     paths |-> <<Line(0, 0, 3000, 4000)>>],
    \* a name that is all extension
    [name |-> <<".", "s", "v", "g">>,
     attrs |-> ("width" :> <<"1", "0", ".", "8">>) @@ ("height" :> <<"5">>),
     paths |-> <<Line(0, 0, 400, 0)>>],
    \* the second curve cannot be measured
    [name |-> <<"m", ".", "s", "v", "g">>,
     attrs |-> <<>>,
     paths |-> <<Line(0, 0, 1000, 0), Broken>>]
>>

FileNames == {Catalogue[i].name : i \in 1..Len(Catalogue)}

\* line 19: svgpathtools.svg2paths2(svg_path)
Svg2Paths2(filename) ==
    Catalogue[CHOOSE i \in 1..Len(Catalogue) : Catalogue[i].name = filename]

\* line 13: os.listdir returns distinct names in an arbitrary order
Listings ==
    UNION {{l \in [1..n -> FileNames] : \A i, j \in 1..n : i # j => l[i] # l[j]} : n \in 0..MaxFiles}

---------------------------------------------------------------------------
(* The script, lines 13-83 *)

filename == listing[fidx]

CaughtPerFile == [pc |-> "loop", fidx |-> fidx + 1]

\* no statement of lines 13-83 is inside a try: an exception leaves the file
\* loop and ends the script
Propagate == [pc |-> "crashed", fidx |-> fidx]

Raise(exc, at) ==
    /\ error' = exc
    /\ errat' = at
    /\ pc' = Propagate.pc
    /\ fidx' = Propagate.fidx

PipeInit ==
    /\ listing \in Listings
    /\ fidx = 1
    /\ pc = "loop"
    /\ width = <<>>
    /\ height = <<>>
    /\ viewbox = <<>>
    /\ svg_width_mm = 0
    /\ svg_height_mm = 0
    /\ msp = <<>>
    /\ path_idx = 0
    /\ scale_factor = <<0, 1>>
    /\ path_length_mm = <<0, 1>>
    /\ num_samples = 0
    /\ ts = <<>>
    /\ polyline_points = <<>>
    /\ unique_points = <<>>
    /\ dxfs = <<>>
    /\ saved = <<>>
    /\ error = "none"
    /\ errat = "none"

DedupIdle ==
    /\ dd_points = <<>>
    /\ dd_i = 0
    /\ dd_before = <<>>
    /\ dd_unique = <<>>
    /\ dd_again = <<>>
    /\ dd_pc = "idle"

Init == PipeInit /\ DedupIdle

\* lines 13-14: a name that does not end in ".svg" is passed over
SkipFile ==
    /\ pc = "loop"
    /\ fidx <= Len(listing)
    /\ ~IsSvg(filename)
    /\ fidx' = fidx + 1
    /\ UNCHANGED <<listing, pc, width, height, viewbox, svg_width_mm, svg_height_mm,
                   msp, path_idx, scale_factor, path_length_mm, num_samples, ts,
                   polyline_points, unique_points, dxfs, saved, error, errat>>

\* lines 14-44: parse the drawing, resolve width and height, create the document
OpenFile ==
    /\ pc = "loop"
    /\ fidx <= Len(listing)
    /\ IsSvg(filename)
    /\ LET svg_attributes == Svg2Paths2(filename).attrs
           w == DictGet(svg_attributes, "width", DefaultWidth)
           h == DictGet(svg_attributes, "height", DefaultHeight)
           vb == Split(DictGet(svg_attributes, "viewBox", DefaultViewBox))
           wf == MmFloat(w)
           hf == MmFloat(h)
       IN  /\ width' = w
           /\ height' = h
           /\ viewbox' = vb
           /\ IF ~wf.ok
              THEN /\ Raise("ValueError", "width")
                   /\ UNCHANGED <<svg_width_mm, svg_height_mm, msp, path_idx>>
              ELSE /\ svg_width_mm' = wf.val
                   /\ IF ~hf.ok
                      THEN /\ Raise("ValueError", "height")
                           /\ UNCHANGED <<svg_height_mm, msp, path_idx>>
                      ELSE /\ svg_height_mm' = hf.val
                           /\ msp' = NewDoc(msp)
                           /\ path_idx' = 0
                           /\ pc' = "paths"
                           /\ UNCHANGED <<fidx, error, errat>>
    /\ UNCHANGED <<listing, scale_factor, path_length_mm, num_samples, ts,
                   polyline_points, unique_points, dxfs, saved>>

\* lines 46-80: one iteration of the path loop
ProcessPath ==
    /\ pc = "paths"
    /\ path_idx < Len(Svg2Paths2(filename).paths)
    /\ LET path == Svg2Paths2(filename).paths[path_idx + 1]
           vw == ParseFloat(viewbox[3])
           sf == ScaleFactor(svg_width_mm, vw.val)
           lmm == PathLengthMm(PathLength(path), sf)
           n == NumSamples(lmm)
           pts == PolylinePoints(path, n, sf)
           uniq == UniquePoints(pts)
       IN  IF path.raises \/ Len(viewbox) < 3 \/ ~vw.ok \/ vw.val = 0
           THEN /\ IF path.raises THEN Raise("Exception", "length")
                   ELSE IF Len(viewbox) < 3 THEN Raise("IndexError", "viewbox")
                   ELSE IF ~vw.ok THEN Raise("ValueError", "viewbox")
                   ELSE Raise("ZeroDivisionError", "viewbox")
                /\ UNCHANGED <<msp, path_idx, scale_factor, path_length_mm, num_samples,
                               ts, polyline_points, unique_points>>
           ELSE /\ scale_factor' = sf
                /\ path_length_mm' = lmm
                /\ num_samples' = n
                /\ ts' = Parameters(n)
                /\ polyline_points' = pts
                /\ unique_points' = uniq
                /\ msp' = AddIfSurvives(msp, uniq)
                /\ path_idx' = path_idx + 1
                /\ UNCHANGED <<fidx, pc, error, errat>>
    /\ UNCHANGED <<listing, width, height, viewbox, svg_width_mm, svg_height_mm,
                   dxfs, saved>>

\* doc.saveas(path): the file is created or replaced
SaveAs(folder, path, document) ==
    [f \in DOMAIN folder \cup {path} |-> IF f = path THEN document ELSE folder[f]]

\* lines 82-83: after the last path the document is written and the loop goes on
SaveDoc ==
    /\ pc = "paths"
    /\ path_idx = Len(Svg2Paths2(filename).paths)
    /\ dxfs' = SaveAs(dxfs, DxfPath(filename), msp)
    /\ saved' = Append(saved, [idx |-> fidx, path |-> DxfPath(filename), doc |-> msp])
    /\ fidx' = fidx + 1
    /\ pc' = "loop"
    /\ UNCHANGED <<listing, width, height, viewbox, svg_width_mm, svg_height_mm,
                   msp, path_idx, scale_factor, path_length_mm, num_samples, ts,
                   polyline_points, unique_points, error, errat>>

\* line 13: the listing is exhausted and the script ends
Finish ==
    /\ pc = "loop"
    /\ fidx > Len(listing)
    /\ pc' = "done"
    /\ UNCHANGED <<listing, fidx, width, height, viewbox, svg_width_mm, svg_height_mm,
                   msp, path_idx, scale_factor, path_length_mm, num_samples, ts,
                   polyline_points, unique_points, dxfs, saved, error, errat>>

Next ==
    \/ SkipFile /\ UNCHANGED dvars
    \/ OpenFile /\ UNCHANGED dvars
    \/ ProcessPath /\ UNCHANGED dvars
    \/ SaveDoc /\ UNCHANGED dvars
    \/ Finish /\ UNCHANGED dvars

Spec == Init /\ [][Next]_vars

---------------------------------------------------------------------------
(* The point deduplicator alone, on every chain of up to MaxPoints points    *)
(* whose coordinates lie at, just below and just above the tolerance         *)

Grid == {0, 9, 10, 11}

Chains == UNION {[1..n -> Grid \X Grid] : n \in 0..MaxPoints}

PipeIdle ==
    /\ listing = <<>>
    /\ fidx = 1
    /\ pc = "idle"
    /\ width = <<>>
    /\ height = <<>>
    /\ viewbox = <<>>
    /\ svg_width_mm = 0
    /\ svg_height_mm = 0
    /\ msp = <<>>
    /\ path_idx = 0
    /\ scale_factor = <<0, 1>>
    /\ path_length_mm = <<0, 1>>
    /\ num_samples = 0
    /\ ts = <<>>
    /\ polyline_points = <<>>
    /\ unique_points = <<>>
    /\ dxfs = <<>>
    /\ saved = <<>>
    /\ error = "none"
    /\ errat = "none"

DedupInit ==
    /\ PipeIdle
    /\ dd_points \in Chains
    /\ dd_i = 0
    /\ dd_before = <<>>
    /\ dd_unique = <<>>
    /\ dd_again = <<>>
    /\ dd_pc = "run"

\* lines 68-74: one iteration of the loop over polyline_points
DedupStep ==
    /\ dd_pc = "run"
    /\ dd_i < Len(dd_points)
    /\ dd_before' = dd_unique
    /\ dd_unique' = DedupAppend(dd_unique, dd_points[dd_i + 1])
    /\ dd_i' = dd_i + 1
    /\ UNCHANGED <<dd_points, dd_again, dd_pc>>

\* the loop of line 68 ends
DedupDone ==
    /\ dd_pc = "run"
    /\ dd_i = Len(dd_points)
    /\ dd_pc' = "once"
    /\ UNCHANGED <<dd_points, dd_i, dd_before, dd_unique, dd_again>>

\* lines 67-74 applied to their own result
DedupAgain ==
    /\ dd_pc = "once"
    /\ dd_again' = UniquePoints(dd_unique)
    /\ dd_pc' = "twice"
    /\ UNCHANGED <<dd_points, dd_i, dd_before, dd_unique>>

DedupNext ==
    \/ DedupStep /\ UNCHANGED pvars
    \/ DedupDone /\ UNCHANGED pvars
    \/ DedupAgain /\ UNCHANGED pvars

SpecDedup == DedupInit /\ [][DedupNext]_vars

---------------------------------------------------------------------------
(* Claims about the point deduplicator, checked under SpecDedup *)

\* the point consumed by the last step and the point it was compared with
StepPoint == dd_points[dd_i]
LastKept == dd_before[Len(dd_before)]
StepCompared == dd_i >= 1 /\ dd_before # <<>>
BothAxesDifferBy(d) ==
    /\ Abs(StepPoint[1] - LastKept[1]) = d
    /\ Abs(StepPoint[2] - LastKept[2]) = d
StepKept == dd_unique = Append(dd_before, StepPoint)
StepDropped == dd_unique = dd_before

\* C1 as stated: a point that differs from the last kept point by exactly
\* 0.01 mm on both axes is kept in the output chain, and a point that differs
\* by 0.009 mm on both axes is dropped.
C1_AsStated ==
    StepCompared =>
        /\ BothAxesDifferBy(10) => StepKept
        /\ BothAxesDifferBy(9) => StepDropped

\* C1 amended: a point whose differences from the last kept point are exactly
\* 0.01 mm on both axes is dropped (the comparison is strict, so only a
\* difference greater than 0.01 mm on some axis keeps a point), and a point
\* that differs by 0.009 mm on both axes is dropped.
C1_ExactToleranceDropped ==
    StepCompared =>
        /\ BothAxesDifferBy(10) => StepDropped
        /\ BothAxesDifferBy(9) => StepDropped
        /\ BothAxesDifferBy(11) => StepKept

\* after (0, 0) both (0.009, 0.009) and (0.01, 0.01) have been dropped
C1_Witness ==
    /\ dd_i = 3
    /\ dd_points = << <<0, 0>>, <<9, 9>>, <<10, 10>> >>
    /\ dd_unique = << <<0, 0>> >>

RECURSIVE IsSubsequence(_, _)
IsSubsequence(a, b) ==
    IF a = <<>> THEN TRUE
    ELSE IF b = <<>> THEN FALSE
    ELSE IF Head(a) = Head(b) THEN IsSubsequence(Tail(a), Tail(b))
    ELSE IsSubsequence(a, Tail(b))

\* C2: the deduplicator's output is an order-preserving subsequence of its
\* input, and every two adjacent output points differ by more than 0.01 mm on
\* the x axis or on the y axis.
C2_OutputSpaced ==
    dd_pc \in {"once", "twice"} =>
        /\ IsSubsequence(dd_unique, dd_points)
        /\ \A k \in 1..(Len(dd_unique) - 1) :
              \/ Abs(dd_unique[k + 1][1] - dd_unique[k][1]) > 10
              \/ Abs(dd_unique[k + 1][2] - dd_unique[k][2]) > 10

\* a chain of three points of which the middle one was dropped
C2_Witness ==
    /\ dd_pc = "once"
    /\ Len(dd_points) = 3
    /\ dd_unique = <<dd_points[1], dd_points[3]>>
    /\ dd_points[2] # dd_points[1]
    /\ dd_points[2] # dd_points[3]

\* C3: the deduplicator applied to its own output returns that output.
C3_Idempotent == dd_pc = "twice" => dd_again = dd_unique

\* the second application ran on an output shorter than the input, with
\* more than one point
C3_Witness ==
    /\ dd_pc = "twice"
    /\ Len(dd_unique) = 2
    /\ Len(dd_points) = 3
    /\ dd_again = dd_unique

---------------------------------------------------------------------------
(* Claims about the script, checked under Spec *)

\* the metadata and the curves of the file the loop is at
CurrentAttrs == Svg2Paths2(filename).attrs
CurrentPaths == Svg2Paths2(filename).paths
\* a curve of the current file has been sampled
Sampled == pc = "paths" /\ path_idx >= 1

\* C4: N = max(2, floor(physical length x 10)) is at least 2, also for a
\* curve of length 0, and the discretizer produces exactly N + 1 raw points,
\* at the parameters t = i/N for i = 0..N in increasing order, the first at
\* t = 0 and the last at t = 1.
C4_SampleCount ==
    Sampled =>
        LET x == path_length_mm[1] * 10
            d == path_length_mm[2]
        IN  /\ num_samples >= 2
            /\ num_samples > 2 => (num_samples * d <= x /\ x < (num_samples + 1) * d)
            /\ num_samples = 2 => x < 3 * d
            /\ Len(polyline_points) = num_samples + 1
            /\ Len(ts) = num_samples + 1
            /\ \A k \in 1..Len(ts) : ts[k] = <<k - 1, num_samples>>
            /\ ts[1][1] = 0
            /\ ts[Len(ts)][1] = ts[Len(ts)][2]

\* a curve of length 0 has been sampled at t = 0, 1/2 and 1
C4_Witness ==
    /\ Sampled
    /\ PathLength(CurrentPaths[path_idx]) = 0
    /\ num_samples = 2
    /\ ts = << <<0, 2>>, <<1, 2>>, <<2, 2>> >>
    /\ Len(polyline_points) = 3

\* C5: a chain of exactly 1 point after deduplication adds no polyline to the
\* document, a chain of exactly 2 points adds exactly one polyline with those
\* 2 vertices, and in general a polyline is appended if and only if the
\* deduplicated chain has at least 2 points.
C5_ChainSurvival ==
    [][(pc = "paths" /\ path_idx' = path_idx + 1) =>
          /\ Len(unique_points') >= 1
          /\ Len(unique_points') = 1 => msp' = msp
          /\ Len(unique_points') >= 2 => msp' = Append(msp, unique_points')]_vars

\* a chain of 2 points has been emitted and the chain of the next curve, of
\* length 0, has been dropped
C5_Witness ==
    /\ Sampled
    /\ path_idx = 2
    /\ PathLength(CurrentPaths[2]) = 0
    /\ Len(unique_points) = 1
    /\ Len(msp) = 1
    /\ Len(msp[1]) = 2

\* the document of the end-to-end scenario, with its curve sampled
C6_Scenario ==
    /\ Sampled
    /\ DOMAIN CurrentAttrs = {"width", "height", "viewBox"}
    /\ CurrentAttrs["width"] = <<"2", "1", ".", "6", "m", "m">>
    /\ CurrentAttrs["height"] = <<"3", "7", ".", "8", "m", "m">>
    /\ CurrentAttrs["viewBox"] =
          <<"-", "4", "0", " ", "-", "3", "0", " ", "1", "2", " ", "2", "1">>
    /\ Len(CurrentPaths) = 1
    /\ PathLength(CurrentPaths[1]) = 24000

\* C6: with width "21.6mm", height "37.8mm", viewbox "-40 -30 12 21" and one
\* curve of length 24, the scale factor is 1.8, the physical length is
\* 43.2 mm, N = 432 and 433 raw points are produced.
C6_EndToEnd ==
    C6_Scenario =>
        /\ scale_factor = <<9, 5>>
        /\ path_length_mm = <<216, 5>>
        /\ num_samples = 432
        /\ Len(polyline_points) = 433

C6_Witness == C6_Scenario /\ num_samples = 432 /\ Len(polyline_points) = 433

\* C7: each of width, height and viewbox that is absent is replaced by its
\* default (21.6 mm, 37.8 mm, "-40 -30 12 21") whatever the other two are, an
\* absent one raises nothing, and with none of the three declared the width
\* is 21.6, the height 37.8, the viewbox width 12 and the scale factor 1.8.
C7_Defaulting ==
    pc \in {"paths", "crashed"} =>
        /\ "width" \notin DOMAIN CurrentAttrs =>
              /\ width = <<"2", "1", ".", "6", "m", "m">>
              /\ svg_width_mm = 21600
              /\ errat # "width"
        /\ "width" \in DOMAIN CurrentAttrs => width = CurrentAttrs["width"]
        /\ "height" \notin DOMAIN CurrentAttrs =>
              /\ height = <<"3", "7", ".", "8", "m", "m">>
              /\ errat # "width" => svg_height_mm = 37800
              /\ errat # "height"
        /\ "height" \in DOMAIN CurrentAttrs => height = CurrentAttrs["height"]
        /\ "viewBox" \notin DOMAIN CurrentAttrs =>
              /\ viewbox = << <<"-", "4", "0">>, <<"-", "3", "0">>, <<"1", "2">>, <<"2", "1">> >>
              /\ errat # "viewbox"
        /\ "viewBox" \in DOMAIN CurrentAttrs => viewbox = Split(CurrentAttrs["viewBox"])
        /\ DOMAIN CurrentAttrs = {} =>
              /\ errat \notin {"width", "height", "viewbox"}
              /\ Sampled => scale_factor = <<9, 5>>

\* a curve of a document that declares none of the three has been sampled
C7_Witness ==
    /\ Sampled
    /\ DOMAIN CurrentAttrs = {}
    /\ svg_width_mm = 21600
    /\ svg_height_mm = 37800
    /\ scale_factor = <<9, 5>>

\* a declared width or height that is no number once a trailing "mm" is cut
\* off, or a declared viewbox without a numeric width field
NonNumericMetadata(attrs) ==
    \/ "width" \in DOMAIN attrs /\ ~MmFloat(attrs["width"]).ok
    \/ "height" \in DOMAIN attrs /\ ~MmFloat(attrs["height"]).ok
    \/ /\ "viewBox" \in DOMAIN attrs
       /\ \/ Len(Split(attrs["viewBox"])) < 3
          \/ ~ParseFloat(Split(attrs["viewBox"])[3]).ok

\* C8 as stated: for a document with any number of curves, none included, a
\* declared width, height or viewbox that is non-numeric is fatal for that
\* file: no document is ever written for such a file.
C8_AsStated ==
    \A k \in 1..Len(saved) : ~NonNumericMetadata(Svg2Paths2(listing[saved[k].idx]).attrs)

\* C9: when a file fails before its document is written, nothing is written
\* for that file, the run takes no further step (no later file is processed
\* or written), and the files written before stay as they are.
C9_FailureHalts ==
    [][/\ error = "none"
       /\ error' # "none" =>
             /\ dxfs' = dxfs
             /\ saved' = saved
             /\ \A k \in 1..Len(saved') : saved'[k].idx < fidx']_vars

\* the second of three files has failed while its document held a polyline:
\* the first file's output is there, the third file is never reached
C9_Witness ==
    /\ error # "none"
    /\ Len(listing) = 3
    /\ fidx = 2
    /\ msp # <<>>
    /\ Len(saved) = 1
    /\ DOMAIN dxfs = {saved[1].path}

\* the name an input name ending in ".svg" is written under: the extension
\* is replaced by ".dxf", or ".dxf" is added when the name has nothing but
\* dots before the extension
ExpectedOutputName(name) ==
    LET stem == SubSeq(name, 1, Len(name) - 4)
    IN  IF \A i \in 1..Len(stem) : stem[i] = "."
        THEN name \o <<".", "d", "x", "f">>
        ELSE stem \o <<".", "d", "x", "f">>

\* the deduplicated chain of curve k of a file whose metadata are numeric
ExpectedChain(name, k) ==
    LET f == Svg2Paths2(name)
        w == MmFloat(IF "width" \in DOMAIN f.attrs THEN f.attrs["width"] ELSE DefaultWidth).val
        v == ParseFloat(Split(IF "viewBox" \in DOMAIN f.attrs THEN f.attrs["viewBox"]
                              ELSE DefaultViewBox)[3]).val
        sf == Frac(w, v)
        n == NumSamples(PathLengthMm(PathLength(f.paths[k]), sf))
    IN  UniquePoints(PolylinePoints(f.paths[k], n, sf))

\* the chains of at least 2 points of the first n curves of a file, in order
RECURSIVE ExpectedDoc(_, _)
ExpectedDoc(name, n) ==
    IF n = 0 THEN <<>>
    ELSE LET c == ExpectedChain(name, n)
         IN  IF Len(c) >= 2 THEN Append(ExpectedDoc(name, n - 1), c)
             ELSE ExpectedDoc(name, n - 1)

\* C10: in a run without failures the files are processed one after another:
\* each file whose name ends in ".svg" in any case gets a new document, all of
\* its curves are processed, and the document is written exactly once, under
\* the same base name, before the next file begins; the document holds the
\* surviving chains of that file's curves in curve order and nothing of any
\* other file; the other files produce no output.
C10_OneFileAtATime ==
    error = "none" =>
        LET before == {i \in 1..(fidx - 1) : IsSvg(listing[i])}
        IN  /\ Len(saved) = Cardinality(before)
            /\ \A k \in 1..Len(saved) :
                  /\ saved[k].idx \in before
                  /\ k > 1 => saved[k - 1].idx < saved[k].idx
                  /\ saved[k].path = ExpectedOutputName(listing[saved[k].idx])
                  /\ saved[k].doc =
                        ExpectedDoc(listing[saved[k].idx],
                                    Len(Svg2Paths2(listing[saved[k].idx]).paths))
                  /\ saved[k].path \in DOMAIN dxfs
                  /\ (\A j \in (k + 1)..Len(saved) : saved[j].path # saved[k].path)
                        => dxfs[saved[k].path] = saved[k].doc
            /\ DOMAIN dxfs = {saved[k].path : k \in 1..Len(saved)}
            /\ pc = "paths" => msp = ExpectedDoc(filename, path_idx)

\* a run over a file that is no drawing and two drawings has ended with two
\* different documents written, in the order of the listing
C10_Witness ==
    /\ pc = "done"
    /\ error = "none"
    /\ Len(listing) = 3
    /\ Len(saved) = 2
    /\ ~IsSvg(listing[1])
    /\ saved[1].idx = 2
    /\ saved[2].idx = 3
    /\ saved[1].doc # <<>>
    /\ saved[2].doc # <<>>
    /\ saved[1].doc # saved[2].doc
    /\ Cardinality(DOMAIN dxfs) = 2

====
